---- MODULE Spec2Model ----
(***************************************************************************)
(* Model of the Dodona reporting protocol of judge-turtle                  *)
(* (judge/dodona_command.py): report blocks used as 'with' blocks, the     *)
(* events they print, and the propagation of DodonaException through the   *)
(* enclosing blocks' __exit__ methods.                                     *)
(*                                                                         *)
(* The output stream is the sequence `out'.  Every element is a record     *)
(*   [msg |-> the JSON object printed,                                     *)
(*    self |-> id of the object whose method printed it,                   *)
(*    during |-> id of the block whose __exit__ was running (0: an enter), *)
(*    exc |-> id of the exception __exit__ received (0: none)]             *)
(* of which only msg is on the wire; the other three fields are history.   *)
(***************************************************************************)
EXTENDS Integers, Sequences, FiniteSets, TLC

VARIABLES stack, children, out, exc, objects, raised, fate, assigned, halted,
          flow, patch

\* the state of a script that uses the report blocks
core == <<stack, children, out, exc, objects, raised, fate, assigned, halted>>

vars == <<stack, children, out, exc, objects, raised, fate, assigned, halted,
          flow, patch>>

(* ---- bounds ---- *)
MaxBlocks == 5
MaxChildren == 1
MaxRaises == 1
MaxAssigns == 1

(* ---- the enumerations and the class hierarchy ---- *)
ErrorType ==
    {"internal error", "compilation error", "memory limit exceeded",
     "time limit exceeded", "output limit exceeded", "runtime error",
     "wrong", "wrong answer", "correct", "correct answer"}

Kinds == {"Judgement", "Tab", "Context", "TestCase", "Test", "Message", "Annotation"}

Classes == Kinds \cup {"DodonaCommand", "DodonaCommandWithAccepted", "DodonaCommandWithStatus"}

\* Python's None (a close_msg that prints nothing, an absent message, no exception)
None == [none |-> TRUE]

\* the classes an object of class cls is an instance of (its method resolution order)
Mro(cls) ==
    CASE cls \in {"Judgement", "Test"} ->
            {cls, "DodonaCommandWithStatus", "DodonaCommandWithAccepted", "DodonaCommand"}
      [] cls \in {"Context", "TestCase"} ->
            {cls, "DodonaCommandWithAccepted", "DodonaCommand"}
      [] OTHER -> {cls, "DodonaCommand"}

\* variant of isinstance in which a Judgement matches every class
isinstance_judgement_matches_all(self, cls) ==
    cls \in Mro(self.cls) \/ self.cls = "Judgement"

\* variant of isinstance that compares the class itself, ignoring base classes
isinstance_exact_class(self, cls) == cls = self.cls

\* isinstance(self, cls)
isinstance(self, cls) == cls \in Mro(self.cls)

\* The nesting of the Dodona report tree, as the grading script uses it:
\* judgement > tab > context > testcase > test, each level directly inside
\* the one before; a message or an annotation may be put in any of them.
Level(cls) ==
    CASE cls = "Judgement" -> 0
      [] cls = "Tab" -> 1
      [] cls = "Context" -> 2
      [] cls = "TestCase" -> 3
      [] cls = "Test" -> 4
      [] OTHER -> 5

\* a script may start with a block of any class
CanNest(parents, cls) ==
    IF parents = << >>
    THEN TRUE
    ELSE LET parent == parents[Len(parents)].cls
         IN  IF cls \in {"Message", "Annotation"}
             THEN Level(parent) < Level(cls)
             ELSE Level(cls) = Level(parent) + 1

\* constructor arguments of each concrete class (the **kwargs that become start_args)
StartArgs(cls) ==
    CASE cls = "Tab" -> [title |-> "g"]
      [] cls = "TestCase" -> [description |-> "d"]
      [] cls = "Test" -> [description |-> "d", expected |-> "A"]
      [] cls = "Message" -> [message |-> "m"]
      [] cls = "Annotation" -> [row |-> "1", text |-> "t"]
      [] OTHER -> << >>

\* variant of the constructor that starts close_args with accepted = True
DodonaCommand_accepted_by_default(id, cls) ==
    [id |-> id, cls |-> cls, start_args |-> StartArgs(cls),
     close_args |-> [accepted |-> TRUE]]

\* DodonaCommand.__init__: start_args from the keyword arguments, close_args empty
DodonaCommand(id, cls) ==
    [id |-> id, cls |-> cls, start_args |-> StartArgs(cls), close_args |-> << >>]

\* variant of DodonaException whose escalate_status does not depend on recover_at
DodonaException_always_escalate(id, status, recover_at, hasNote, noteId) ==
    [id |-> id,
     cls |-> "DodonaException",
     status |-> status,
     recover_at |-> IF recover_at = "None" THEN "Judgement" ELSE recover_at,
     escalate_status |-> TRUE,
     message |-> IF hasNote THEN DodonaCommand(noteId, "Message") ELSE None]

\* DodonaException.__init__; recover_at "None" is the omitted argument, and
\* hasNote says whether message keyword arguments were given
DodonaException(id, status, recover_at, hasNote, noteId) ==
    [id |-> id,
     cls |-> "DodonaException",
     status |-> status,
     recover_at |-> IF recover_at = "None" THEN "Judgement" ELSE recover_at,
     escalate_status |-> (recover_at # "None"),
     message |-> IF hasNote THEN DodonaCommand(noteId, "Message") ELSE None]

\* any exception that is not a DodonaException
OtherException(id) == [id |-> id, cls |-> "Exception"]

\* DodonaCommand.name: the lower-cased class name
name(self) ==
    CASE self.cls = "Judgement" -> "judgement"
      [] self.cls = "Tab" -> "tab"
      [] self.cls = "Context" -> "context"
      [] self.cls = "TestCase" -> "testcase"
      [] self.cls = "Test" -> "test"
      [] self.cls = "Message" -> "message"
      [] self.cls = "Annotation" -> "annotation"

\* {"command": c, **args}: a key of args wins over the command key
Dict(command, args) == args @@ ("command" :> command)

\* start_msg, with the overrides of Message and Annotation
start_msg(self) ==
    CASE self.cls = "Message" -> Dict(<<"append", "message">>, self.start_args)
      [] self.cls = "Annotation" -> Dict(<<"annotate", "code">>, self.start_args)
      [] OTHER -> Dict(<<"start", name(self)>>, self.start_args)

\* variant of close_msg without the overrides of Message and Annotation
close_msg_no_override(self) == Dict(<<"close", name(self)>>, self.close_args)

\* close_msg, with the overrides of Message and Annotation (which return None)
close_msg(self) ==
    IF self.cls \in {"Message", "Annotation"}
    THEN None
    ELSE Dict(<<"close", name(self)>>, self.close_args)

\* DodonaCommand.__print_command: nothing for None, else one record on the stream
print_command(o, result, self, during, e) ==
    IF result = None
    THEN o
    ELSE Append(o, [msg |-> result, self |-> self, during |-> during, exc |-> e])

\* DodonaCommand.__enter__: print the start message
enter(self, o, during, e) == print_command(o, start_msg(self), self.id, during, e)

\* variant of StripMessage that leaves the note on the exception
StripMessage_keep(e) == e

\* "exception.message = None": the note is removed once it has been printed
StripMessage(e) == [e EXCEPT !.message = None]

\* variant of the base handler that never prints escalate-status
Base_handle_never_escalates(c) ==
    LET e == c.exception
        o1 == IF e.message # None
              THEN print_command(enter(e.message, c.out, c.self.id, e.id),
                                 close_msg(e.message), e.message.id, c.self.id, e.id)
              ELSE c.out
    IN  [self |-> c.self, exception |-> StripMessage(e), out |-> o1,
         handled |-> isinstance(c.self, e.recover_at)]

\* variant of the base handler that prints escalate-status in every block the
\* exception passes, not only in the one that matches recover_at
Base_handle_escalate_every_block(c) ==
    LET e == c.exception
        o1 == IF e.message # None
              THEN print_command(enter(e.message, c.out, c.self.id, e.id),
                                 close_msg(e.message), e.message.id, c.self.id, e.id)
              ELSE c.out
        o2 == IF e.escalate_status
              THEN print_command(o1, [command |-> <<"escalate", "status">>,
                                      status |-> e.status],
                                 c.self.id, c.self.id, e.id)
              ELSE o1
    IN  [self |-> c.self, exception |-> StripMessage(e), out |-> o2,
         handled |-> isinstance(c.self, e.recover_at)]

\* DodonaCommand.handle_dodona_exception.  c is the call's state
\* [self, exception, out]; the result adds `handled'.
Base_handle_dodona_exception(c) ==
    LET e == c.exception
        \* "with exception.message: pass": the Message is entered and exited
        o1 == IF e.message # None
              THEN print_command(enter(e.message, c.out, c.self.id, e.id),
                                 close_msg(e.message), e.message.id, c.self.id, e.id)
              ELSE c.out
        e1 == StripMessage(e)
    IN  IF isinstance(c.self, e.recover_at)
        THEN [self |-> c.self,
              exception |-> e1,
              out |-> IF e.escalate_status
                      THEN print_command(o1, [command |-> <<"escalate", "status">>,
                                              status |-> e.status],
                                         c.self.id, c.self.id, e.id)
                      ELSE o1,
              handled |-> TRUE]
        ELSE [self |-> c.self, exception |-> e1, out |-> o1, handled |-> FALSE]

\* variant of Accepted that compares with ErrorType.CORRECT alone
Accepted_correct_only(status) == status.enum = "correct"

\* the value DodonaCommandWithAccepted.handle_dodona_exception assigns to accepted
Accepted(status) == status.enum = "correct" \/ status.enum = "correct answer"

\* variant of the with-accepted handler that replaces the close fields
WithAccepted_handle_replaces_fields(c) ==
    Base_handle_dodona_exception(
        [c EXCEPT !.self.close_args = ("accepted" :> Accepted(c.exception.status))])

\* DodonaCommandWithAccepted.handle_dodona_exception
WithAccepted_handle_dodona_exception(c) ==
    Base_handle_dodona_exception(
        [c EXCEPT !.self.close_args =
            ("accepted" :> Accepted(c.exception.status)) @@ c.self.close_args])

\* variant of the with-status handler that calls the base handler directly,
\* skipping DodonaCommandWithAccepted
WithStatus_handle_skips_accepted(c) ==
    Base_handle_dodona_exception(
        [c EXCEPT !.self.close_args =
            ("status" :> c.exception.status) @@ c.self.close_args])

\* DodonaCommandWithStatus.handle_dodona_exception
WithStatus_handle_dodona_exception(c) ==
    WithAccepted_handle_dodona_exception(
        [c EXCEPT !.self.close_args =
            ("status" :> c.exception.status) @@ c.self.close_args])

\* method dispatch on the class of self
handle_dodona_exception(c) ==
    IF isinstance(c.self, "DodonaCommandWithStatus")
    THEN WithStatus_handle_dodona_exception(c)
    ELSE IF isinstance(c.self, "DodonaCommandWithAccepted")
    THEN WithAccepted_handle_dodona_exception(c)
    ELSE Base_handle_dodona_exception(c)

\* variant of exit that prints the close message before and after the handling
exit_close_twice(self, exc_val, o) ==
    LET o0 == print_command(o, close_msg(self), self.id, self.id,
                            IF exc_val = None THEN 0 ELSE exc_val.id)
        h == IF exc_val # None /\ exc_val.cls = "DodonaException"
             THEN handle_dodona_exception([self |-> self, exception |-> exc_val, out |-> o0])
             ELSE [self |-> self, exception |-> exc_val, out |-> o0, handled |-> FALSE]
        e == IF exc_val = None THEN 0 ELSE exc_val.id
    IN  [h EXCEPT !.out = print_command(h.out, close_msg(h.self), self.id, self.id, e)]

\* variant of exit that prints the close message only when nothing propagates
exit_close_unless_raised(self, exc_val, o) ==
    LET h == IF exc_val # None /\ exc_val.cls = "DodonaException"
             THEN handle_dodona_exception([self |-> self, exception |-> exc_val, out |-> o])
             ELSE [self |-> self, exception |-> exc_val, out |-> o, handled |-> FALSE]
        e == IF exc_val = None THEN 0 ELSE exc_val.id
    IN  IF exc_val # None /\ ~h.handled
        THEN h
        ELSE [h EXCEPT !.out = print_command(h.out, close_msg(h.self), self.id, self.id, e)]

\* variant of exit that reports every exception as handled
exit_swallows_everything(self, exc_val, o) ==
    LET h == IF exc_val # None /\ exc_val.cls = "DodonaException"
             THEN handle_dodona_exception([self |-> self, exception |-> exc_val, out |-> o])
             ELSE [self |-> self, exception |-> exc_val, out |-> o, handled |-> TRUE]
        e == IF exc_val = None THEN 0 ELSE exc_val.id
    IN  [h EXCEPT !.out = print_command(h.out, close_msg(h.self), self.id, self.id, e)]

\* variant of exit that never reports the exception as handled
exit_never_handled(self, exc_val, o) ==
    LET h == IF exc_val # None /\ exc_val.cls = "DodonaException"
             THEN handle_dodona_exception([self |-> self, exception |-> exc_val, out |-> o])
             ELSE [self |-> self, exception |-> exc_val, out |-> o, handled |-> FALSE]
        e == IF exc_val = None THEN 0 ELSE exc_val.id
    IN  [h EXCEPT !.out = print_command(h.out, close_msg(h.self), self.id, self.id, e),
                  !.handled = FALSE]

\* variant of exit that prints the close message first and handles afterwards
exit_close_first(self, exc_val, o) ==
    LET e == IF exc_val = None THEN 0 ELSE exc_val.id
        o0 == print_command(o, close_msg(self), self.id, self.id, e)
    IN  IF exc_val # None /\ exc_val.cls = "DodonaException"
        THEN handle_dodona_exception([self |-> self, exception |-> exc_val, out |-> o0])
        ELSE [self |-> self, exception |-> exc_val, out |-> o0, handled |-> FALSE]

\* variant of exit that gives a with-status block the status "correct" when no
\* exception reached it
exit_default_status(self, exc_val, o) ==
    LET h == IF exc_val # None /\ exc_val.cls = "DodonaException"
             THEN handle_dodona_exception([self |-> self, exception |-> exc_val, out |-> o])
             ELSE [self |-> IF exc_val = None /\ isinstance(self, "DodonaCommandWithStatus")
                            THEN [self EXCEPT !.close_args =
                                     @ @@ ("status" :> [enum |-> "correct"])]
                            ELSE self,
                   exception |-> exc_val, out |-> o, handled |-> FALSE]
        e == IF exc_val = None THEN 0 ELSE exc_val.id
    IN  [h EXCEPT !.out = print_command(h.out, close_msg(h.self), self.id, self.id, e)]

\* DodonaCommand.__exit__: handle a DodonaException, then print the close message.
\* The result is [self, exception, out, handled].
exit(self, exc_val, o) ==
    LET h == IF exc_val # None /\ exc_val.cls = "DodonaException"
             THEN handle_dodona_exception([self |-> self, exception |-> exc_val, out |-> o])
             ELSE [self |-> self, exception |-> exc_val, out |-> o, handled |-> FALSE]
        e == IF exc_val = None THEN 0 ELSE exc_val.id
    IN  [h EXCEPT !.out = print_command(h.out, close_msg(h.self), self.id, self.id, e)]

(* ---- the state machine: a script that uses the blocks ---- *)

Top == stack[Len(stack)]
Pop(s) == SubSeq(s, 1, Len(s) - 1)
Running == halted = "no" /\ exc = None

\* ids of the blocks on the stack, innermost first
Enclosing == [i \in 1..Len(stack) |-> stack[Len(stack) + 1 - i].id]

\* the state before the first statement of a script
InitCore ==
    /\ stack = << >>
    /\ children = <<0>>
    /\ out = << >>
    /\ exc = None
    /\ objects = << >>
    /\ raised = << >>
    /\ fate = << >>
    /\ assigned = << >>
    /\ halted = "no"

\* "with Cls(...) as handle:" -- construct the block and enter it
Enter(cls) ==
    /\ Running
    /\ Len(objects) < MaxBlocks
    /\ CanNest(stack, cls)
    /\ children[Len(children)] < MaxChildren
    /\ children' = Append([children EXCEPT ![Len(children)] = @ + 1], 0)
    /\ LET self == DodonaCommand(Len(objects) + 1, cls)
       IN  /\ out' = enter(self, out, 0, 0)
           /\ stack' = Append(stack, self)
           /\ objects' = Append(objects, cls)
    /\ UNCHANGED <<exc, raised, fate, assigned, halted>>

\* "handle.field = value" in the body of the innermost block
Assign(field) ==
    /\ Running
    /\ stack # << >>
    /\ Len(assigned) < MaxAssigns
    /\ LET value == CASE field = "generated" -> "B"
                      [] field = "accepted" -> TRUE
                      [] field = "status" -> [enum |-> "correct"]
       IN  /\ stack' = [stack EXCEPT ![Len(stack)].close_args = (field :> value) @@ @]
           /\ assigned' = Append(assigned, [block |-> Top.id, field |-> field,
                                             value |-> value])
    /\ UNCHANGED <<children, out, exc, objects, raised, fate, halted>>

\* the body of the innermost block ends without an exception
ExitNormal ==
    /\ Running
    /\ stack # << >>
    /\ out' = exit(Top, None, out).out
    /\ stack' = Pop(stack)
    /\ children' = Pop(children)
    /\ UNCHANGED <<exc, objects, raised, fate, assigned, halted>>

\* "raise DodonaException(status, recover_at, **kwargs)" at the current position
Raise(status, recover_at, hasNote) ==
    /\ Running
    /\ Len(raised) < MaxRaises
    /\ LET e == DodonaException(Len(raised) + 1, status, recover_at, hasNote,
                                Len(objects) + 1)
       IN  /\ exc' = e
           /\ raised' = Append(raised, [exception |-> e, recover_at |-> recover_at,
                                        enclosing |-> Enclosing])
    /\ objects' = IF hasNote THEN Append(objects, "Message") ELSE objects
    /\ fate' = Append(fate, "in flight")
    /\ UNCHANGED <<stack, children, out, assigned, halted>>

\* any other exception is raised at the current position
RaiseOther ==
    /\ Running
    /\ Len(raised) < MaxRaises
    /\ LET e == OtherException(Len(raised) + 1)
       IN  /\ exc' = e
           /\ raised' = Append(raised, [exception |-> e, recover_at |-> "None",
                                        enclosing |-> Enclosing])
    /\ fate' = Append(fate, "in flight")
    /\ UNCHANGED <<stack, children, out, objects, assigned, halted>>

\* the exception in flight reaches the __exit__ of the innermost block
Unwind ==
    /\ halted = "no"
    /\ exc # None
    /\ stack # << >>
    /\ LET r == exit(Top, exc, out)
       IN  /\ out' = r.out
           /\ exc' = IF r.handled THEN None ELSE r.exception
           /\ fate' = IF r.handled THEN [fate EXCEPT ![exc.id] = "claimed"] ELSE fate
    /\ stack' = Pop(stack)
    /\ children' = Pop(children)
    /\ UNCHANGED <<objects, raised, assigned, halted>>

\* the exception in flight leaves the outermost block: the process ends with it
Escape ==
    /\ halted = "no"
    /\ exc # None
    /\ stack = << >>
    /\ halted' = "crashed"
    /\ fate' = [fate EXCEPT ![exc.id] = "escaped"]
    /\ UNCHANGED <<stack, children, out, exc, objects, raised, assigned>>

\* the script ends
Finish ==
    /\ Running
    /\ stack = << >>
    /\ halted' = "done"
    /\ UNCHANGED <<stack, children, out, exc, objects, raised, fate, assigned>>

\* The arguments a script gives to DodonaException: <<status, recover_at, note>>.
\* The status decides accepted and nothing else, and no other argument has a
\* part in that: every status is raised in the plain form (no recover_at, no
\* note), and one status of each kind of line 298 (the two accepted ones and
\* one that is not) with every recover_at, with and without a note.
Statuses == {"correct", "correct answer", "wrong answer"}
RaiseArgs ==
    (ErrorType \X {"None"} \X {FALSE}) \cup
    (Statuses \X (Classes \cup {"None"}) \X BOOLEAN)

\* the grading flow and the runtime patches are not part of such a script
Init ==
    /\ InitCore
    /\ flow = None
    /\ patch = None

Next ==
    \/ (\E cls \in Kinds : Enter(cls)) /\ UNCHANGED <<flow, patch>>
    \/ (\E field \in {"generated", "accepted", "status"} : Assign(field))
          /\ UNCHANGED <<flow, patch>>
    \/ ExitNormal /\ UNCHANGED <<flow, patch>>
    \/ (\E a \in RaiseArgs : Raise([enum |-> a[1]], a[2], a[3]))
          /\ UNCHANGED <<flow, patch>>
    \/ RaiseOther /\ UNCHANGED <<flow, patch>>
    \/ Unwind /\ UNCHANGED <<flow, patch>>
    \/ Escape /\ UNCHANGED <<flow, patch>>
    \/ Finish /\ UNCHANGED <<flow, patch>>

Spec == Init /\ [][Next]_vars

(* ---- the grading flow: turtle_judge.py and judge/runtime.py ---- *)

\* the canvas has NPixels pixels, a pixel has a value in 0..MaxVal
NPixels == 3
MaxVal == 1
Pixels == 1..NPixels
\* what a turtle program draws: the pixels it paints
Drawings == SUBSET Pixels

\* run_file: the pen after the program at file_path has run
run_file(file_path) == [pen |-> file_path]
\* SvgTurtle.to_svg, str.encode and bytes.decode
to_svg(t) == [svg |-> t.pen]
encode(text) == [bytes |-> text]
decode(bytes) == bytes.bytes
\* generate_svg_byte_stream
generate_svg_byte_stream(file_path) == encode(to_svg(run_file(file_path)))
\* generate_png_image: the raster of the drawing
generate_png_image(svg_bytes) ==
    [p \in Pixels |-> IF p \in decode(svg_bytes).svg THEN MaxVal ELSE 0]

\* ImageChops.difference: the absolute difference, pixel by pixel
difference(image1, image2) ==
    [p \in Pixels |-> IF image1[p] >= image2[p]
                      THEN image1[p] - image2[p]
                      ELSE image2[p] - image1[p]]
\* Image.histogram: the number of pixels of each value
histogram(image) ==
    [v \in 0..MaxVal |-> Cardinality({p \in Pixels : image[p] = v})]
\* sum(h) over the values 0..v
RECURSIVE sum(_, _)
sum(h, v) == IF v = 0 THEN h[0] ELSE h[v] + sum(h, v - 1)
\* diff_images
diff_images(image1, image2) == sum(histogram(difference(image1, image2)), MaxVal)

\* "with Cls(**args):" at position pc of the script, going on at position next
FlowEnter(pc, cls, args, next) ==
    /\ flow.pc = pc
    /\ Running
    /\ LET self == [DodonaCommand(Len(objects) + 1, cls) EXCEPT !.start_args = args]
       IN  /\ out' = enter(self, out, 0, 0)
           /\ stack' = Append(stack, self)
           /\ objects' = Append(objects, cls)
    /\ children' = Append([children EXCEPT ![Len(children)] = @ + 1], 0)
    /\ flow' = [flow EXCEPT !.pc = next]
    /\ UNCHANGED <<exc, raised, fate, assigned, halted>>

\* the exercise configuration has been read: the submission and the solution
FlowInit ==
    /\ InitCore
    /\ patch = None
    /\ \E source, solution_file \in Drawings :
          flow = [pc |-> "Judgement", source |-> source,
                  solution_file |-> solution_file,
                  svg_submission |-> None, png_submission |-> None,
                  svg_solution |-> None, png_solution |-> None, diff |-> None]

\* line 21
EnterJudgement == FlowEnter("Judgement", "Judgement", << >>, "sanity_check")
\* lines 22-28
Configure ==
    /\ flow.pc = "sanity_check"
    /\ Running
    /\ flow' = [flow EXCEPT !.pc = "Tab"]
    /\ UNCHANGED core
\* line 30
EnterTab == FlowEnter("Tab", "Tab", [title |-> "Comparing PNGs"], "Context")
\* lines 31-34
EnterContext == FlowEnter("Context", "Context", << >>, "TestCase")
EnterTestCase ==
    FlowEnter("TestCase", "TestCase",
              [format |-> "python", description |-> "raw_submission_file"],
              "svg_submission")
\* line 35
SvgSubmission ==
    /\ flow.pc = "svg_submission"
    /\ Running
    /\ flow' = [flow EXCEPT !.svg_submission = generate_svg_byte_stream(flow.source),
                            !.pc = "png_submission"]
    /\ UNCHANGED core
\* line 36
PngSubmission ==
    /\ flow.pc = "png_submission"
    /\ Running
    /\ flow' = [flow EXCEPT !.png_submission = generate_png_image(flow.svg_submission),
                            !.pc = "svg_solution"]
    /\ UNCHANGED core
\* line 38
SvgSolution ==
    /\ flow.pc = "svg_solution"
    /\ Running
    /\ flow' = [flow EXCEPT !.svg_solution = generate_svg_byte_stream(flow.solution_file),
                            !.pc = "png_solution"]
    /\ UNCHANGED core
\* line 39
PngSolution ==
    /\ flow.pc = "png_solution"
    /\ Running
    /\ flow' = [flow EXCEPT !.png_solution = generate_png_image(flow.svg_solution),
                            !.pc = "diff"]
    /\ UNCHANGED core
\* line 41
Diff ==
    /\ flow.pc = "diff"
    /\ Running
    /\ flow' = [flow EXCEPT !.diff = diff_images(flow.png_submission, flow.png_solution),
                            !.pc = "Test"]
    /\ UNCHANGED core
\* lines 43-46
EnterTest ==
    FlowEnter("Test", "Test",
              [description |-> <<"test1", flow.diff>>,
               expected |-> decode(flow.svg_submission)],
              "generated")
\* line 47
SetGenerated ==
    /\ flow.pc = "generated"
    /\ Running
    /\ LET value == decode(flow.svg_solution)
       IN  /\ stack' = [stack EXCEPT ![Len(stack)].close_args =
                                        ("generated" :> value) @@ @]
           /\ assigned' = Append(assigned, [block |-> Top.id, field |-> "generated",
                                             value |-> value])
    /\ flow' = [flow EXCEPT !.pc = "end"]
    /\ UNCHANGED <<children, out, exc, objects, raised, fate, halted>>
\* the with blocks end, innermost first, then the script
Leave == flow.pc = "end" /\ ExitNormal /\ UNCHANGED flow
End == flow.pc = "end" /\ Finish /\ UNCHANGED flow
\* a collaborator (the configuration, the program that is run, the renderer)
\* raises an exception
CollaboratorRaises ==
    /\ flow.pc \in {"sanity_check", "svg_submission", "png_submission",
                    "svg_solution", "png_solution"}
    /\ RaiseOther
    /\ UNCHANGED flow

FlowNext ==
    \/ EnterJudgement /\ UNCHANGED patch
    \/ Configure /\ UNCHANGED patch
    \/ EnterTab /\ UNCHANGED patch
    \/ EnterContext /\ UNCHANGED patch
    \/ EnterTestCase /\ UNCHANGED patch
    \/ SvgSubmission /\ UNCHANGED patch
    \/ PngSubmission /\ UNCHANGED patch
    \/ SvgSolution /\ UNCHANGED patch
    \/ PngSolution /\ UNCHANGED patch
    \/ Diff /\ UNCHANGED patch
    \/ EnterTest /\ UNCHANGED patch
    \/ SetGenerated /\ UNCHANGED patch
    \/ Leave /\ UNCHANGED patch
    \/ End /\ UNCHANGED patch
    \/ CollaboratorRaises /\ UNCHANGED patch
    \/ Unwind /\ UNCHANGED <<flow, patch>>
    \/ Escape /\ UNCHANGED <<flow, patch>>

SpecFlow == FlowInit /\ [][FlowNext]_vars

(* ---- the runtime patches: judge/runtime_patch.py ---- *)

\* at most MaxScopes patch scopes are entered in one run
MaxScopes == 3

Streams == {"sys.stdin", "sys.stdout", "sys.stderr"}
DunderStreams == {"sys.__stdin__", "sys.__stdout__", "sys.__stderr__"}
\* the module attributes, module table entries, builtins and class attributes
\* the patches assign to
Globals ==
    Streams \cup DunderStreams \cup
    {"time.sleep",
     "sys.modules['os']", "sys.modules['io']", "builtins.open", "builtins.eval",
     "builtins.exec", "sys.argv",
     "turtle.mainloop", "turtle.done", "turtle.Turtle",
     "SvgTurtle._screen", "SvgTurtle._pen"}
PatchClasses == {"InOutPatch", "TimePatch", "RuntimePatch", "TurtlePatch"}

\* the objects a global can be bound to: the one it has when the interpreter
\* starts, None, or an object made by a patch (the id-th object made)
Original(global) == [kind |-> "original", of |-> global, id |-> 0]
PyNone == [kind |-> "None", of |-> "", id |-> 0]
New(kind, id) == [kind |-> kind, of |-> "", id |-> id]

\* InOutPatch.patch up to its yield: g the globals, n the objects made so far;
\* the result has the new globals and the generator's local variables
InOutPatch_enter(g, n) ==
    LET l112 == [old_in |-> g["sys.stdin"], old_out |-> g["sys.stdout"],
                 old_err |-> g["sys.stderr"]]
        l113 == [in |-> g["sys.__stdin__"], out |-> g["sys.__stdout__"],
                 err |-> g["sys.__stderr__"]]
        g115 == [g EXCEPT !["sys.stdin"] = New("StringIO", n + 1),
                          !["sys.stdout"] = New("StringIO", n + 2),
                          !["sys.stderr"] = New("StringIO", n + 3)]
        l116 == [in |-> g115["sys.stdin"], out |-> g115["sys.stdout"],
                 err |-> g115["sys.stderr"]]
    IN  [globals |-> g115,
         locals |-> ("old_in" :> l112.old_in) @@ ("old_out" :> l112.old_out) @@
                    ("old_err" :> l112.old_err) @@
                    ("__old_in__" :> l116.in) @@ ("__old_out__" :> l116.out) @@
                    ("__old_err__" :> l116.err),
         made |-> n + 3]
\* InOutPatch.patch, the finally block
InOutPatch_finally(g, locals) ==
    [g EXCEPT !["sys.stdin"] = locals["old_in"],
              !["sys.stdout"] = locals["old_out"],
              !["sys.stderr"] = locals["old_err"],
              !["sys.__stdin__"] = locals["__old_in__"],
              !["sys.__stdout__"] = locals["__old_out__"],
              !["sys.__stderr__"] = locals["__old_err__"]]

\* TimePatch.patch up to its yield, and its finally block
TimePatch_enter(g, n) ==
    [globals |-> [g EXCEPT !["time.sleep"] = New("lambda", n + 1)],
     locals |-> ("old_sleep" :> g["time.sleep"]),
     made |-> n + 1]
TimePatch_finally(g, locals) == [g EXCEPT !["time.sleep"] = locals["old_sleep"]]

\* RuntimePatch.patch up to its yield, and its finally block
RuntimePatch_enter(g, n) ==
    [globals |-> [g EXCEPT !["sys.modules['os']"] = PyNone,
                           !["sys.modules['io']"] = PyNone,
                           !["builtins.open"] = PyNone,
                           !["builtins.eval"] = PyNone,
                           !["builtins.exec"] = PyNone,
                           !["sys.argv"] = New("list", n + 1)],
     locals |-> ("old_os" :> g["sys.modules['os']"]) @@
                ("old_io" :> g["sys.modules['io']"]) @@
                ("old_open" :> g["builtins.open"]) @@
                ("old_eval" :> g["builtins.eval"]) @@
                ("old_exec" :> g["builtins.exec"]) @@
                ("old_argv" :> g["sys.argv"]),
     made |-> n + 1]
RuntimePatch_finally(g, locals) ==
    [g EXCEPT !["sys.modules['os']"] = locals["old_os"],
              !["sys.modules['io']"] = locals["old_io"],
              !["builtins.open"] = locals["old_open"],
              !["builtins.eval"] = locals["old_eval"],
              !["builtins.exec"] = locals["old_exec"],
              !["sys.argv"] = locals["old_argv"]]

\* TurtlePatch.patch up to its yield, and its finally block
TurtlePatch_enter(g, n) ==
    [globals |-> [g EXCEPT !["SvgTurtle._screen"] = New("_Screen", n + 1),
                           !["SvgTurtle._pen"] = New("CustomTurtle()", n + 2),
                           !["turtle.mainloop"] = New("lambda", n + 3),
                           !["turtle.done"] = New("lambda", n + 4),
                           !["turtle.Turtle"] = New("CustomTurtle", n + 5)],
     locals |-> ("old_mainloop" :> g["turtle.mainloop"]) @@
                ("old_done" :> g["turtle.done"]) @@
                ("old_turtle" :> g["turtle.Turtle"]),
     made |-> n + 5]
TurtlePatch_finally(g, locals) ==
    [g EXCEPT !["turtle.mainloop"] = locals["old_mainloop"],
              !["turtle.done"] = locals["old_done"],
              !["turtle.Turtle"] = locals["old_turtle"]]

\* Patch.__init__ and Patch.__enter__: the generator runs up to its yield
Patch_enter(cls, g, n) ==
    CASE cls = "InOutPatch" -> InOutPatch_enter(g, n)
      [] cls = "TimePatch" -> TimePatch_enter(g, n)
      [] cls = "RuntimePatch" -> RuntimePatch_enter(g, n)
      [] cls = "TurtlePatch" -> TurtlePatch_enter(g, n)
\* Patch.__exit__: the generator is dropped, which runs its finally block (the
\* patch object holds the only reference to it); the result is never "handled"
Patch_exit(cls, g, locals) ==
    [globals |-> CASE cls = "InOutPatch" -> InOutPatch_finally(g, locals)
                   [] cls = "TimePatch" -> TimePatch_finally(g, locals)
                   [] cls = "RuntimePatch" -> RuntimePatch_finally(g, locals)
                   [] cls = "TurtlePatch" -> TurtlePatch_finally(g, locals),
     handled |-> FALSE]

\* The interpreter has started: every global has its own object, except that
\* sys.stdin, sys.stdout and sys.stderr are the objects of sys.__stdin__,
\* sys.__stdout__ and sys.__stderr__ unless the caller has redirected them.
PatchInit ==
    /\ InitCore
    /\ flow = None
    /\ \E redirected \in BOOLEAN :
          patch = [globals |->
                      [x \in Globals |->
                          IF x \in Streams /\ ~redirected
                          THEN Original(CHOOSE d \in DunderStreams :
                                           d = CASE x = "sys.stdin" -> "sys.__stdin__"
                                                 [] x = "sys.stdout" -> "sys.__stdout__"
                                                 [] x = "sys.stderr" -> "sys.__stderr__")
                          ELSE Original(x)],
                   scopes |-> << >>,
                   made |-> 0,
                   entered |-> 0,
                   raising |-> FALSE,
                   crashed |-> FALSE,
                   history |-> << >>]

\* "with Cls(...):" -- a patch is made and entered
PatchEnter(cls) ==
    /\ ~patch.raising
    /\ ~patch.crashed
    /\ patch.entered < MaxScopes
    /\ LET r == Patch_enter(cls, patch.globals, patch.made)
       IN  patch' = [patch EXCEPT
                        !.globals = r.globals,
                        !.made = r.made,
                        !.entered = @ + 1,
                        !.scopes = Append(@, [cls |-> cls, locals |-> r.locals,
                                              before |-> patch.globals])]
    /\ UNCHANGED <<core, flow>>

\* the body of the innermost scope raises an exception
PatchBodyRaises ==
    /\ ~patch.raising
    /\ ~patch.crashed
    /\ patch.scopes # << >>
    /\ patch' = [patch EXCEPT !.raising = TRUE]
    /\ UNCHANGED <<core, flow>>

\* the innermost scope is left, by the end of its body or by the exception
PatchExit ==
    /\ patch.scopes # << >>
    /\ LET scope == patch.scopes[Len(patch.scopes)]
           r == Patch_exit(scope.cls, patch.globals, scope.locals)
       IN  patch' = [patch EXCEPT
                        !.globals = r.globals,
                        !.scopes = Pop(@),
                        !.raising = @ /\ ~r.handled,
                        !.history = Append(@, [cls |-> scope.cls,
                                               before |-> scope.before,
                                               after |-> r.globals,
                                               raised |-> patch.raising,
                                               depth |-> Len(patch.scopes)])]
    /\ UNCHANGED <<core, flow>>

\* the exception leaves the outermost scope
PatchCrash ==
    /\ patch.raising
    /\ patch.scopes = << >>
    /\ patch' = [patch EXCEPT !.raising = FALSE, !.crashed = TRUE]
    /\ UNCHANGED <<core, flow>>

PatchNext ==
    \/ \E cls \in PatchClasses : PatchEnter(cls)
    \/ PatchBodyRaises
    \/ PatchExit
    \/ PatchCrash

SpecPatch == PatchInit /\ [][PatchNext]_vars

(* ---- reading the output stream and the history ---- *)

Events == 1..Len(out)
Verb(i) == out[i].msg.command[1]
Noun(i) == out[i].msg.command[2]

\* the classes whose close_msg prints a close event
Closable == {"Judgement", "Tab", "Context", "TestCase", "Test"}
\* the classes below DodonaCommandWithAccepted and DodonaCommandWithStatus
WithAccepted == {"Judgement", "Context", "TestCase", "Test"}
WithStatus == {"Judgement", "Test"}

StartsOf(id) == {i \in Events : Verb(i) = "start" /\ out[i].self = id}
ClosesOf(id) == {i \in Events : Verb(i) = "close" /\ out[i].self = id}
OnStack(id) == \E k \in 1..Len(stack) : stack[k].id = id

IsDodona(r) == r.exception.cls = "DodonaException"
HasNote(r) == IsDodona(r) /\ r.exception.message # None

\* the stream from event i on is well nested, `open' being the start events
\* not yet closed
RECURSIVE Nested(_, _)
Nested(i, open) ==
    IF i > Len(out) THEN TRUE
    ELSE IF Verb(i) = "start" THEN Nested(i + 1, Append(open, i))
    ELSE IF Verb(i) = "close"
         THEN /\ open # << >>
              /\ out[open[Len(open)]].self = out[i].self
              /\ Noun(open[Len(open)]) = Noun(i)
              /\ Nested(i + 1, Pop(open))
    ELSE Nested(i + 1, open)

(* C1: the event stream is well nested -- every close-<kind> event closes  *)
(* the most recent start-<kind> event still open, of the same block and    *)
(* kind -- and every block instance has exactly one start event, at most   *)
(* one close event, the start before the close; a Message or Annotation    *)
(* prints at most its single event.                                        *)
C1_WellNested ==
    /\ Nested(1, << >>)
    /\ \A id \in DOMAIN objects :
          IF objects[id] \in Closable
          THEN /\ Cardinality(StartsOf(id)) = 1
               /\ Cardinality(ClosesOf(id)) <= 1
               /\ \A i \in StartsOf(id), j \in ClosesOf(id) : i < j
          ELSE /\ Cardinality({i \in Events : out[i].self = id /\ Verb(i) # "escalate"}) <= 1
               /\ \A i \in Events :
                     out[i].self = id => Verb(i) \in {"append", "annotate", "escalate"}

\* a finished run in which a failure with a note was claimed below the root
\* and three blocks were closed
C1_Witness ==
    /\ halted = "done"
    /\ \E e \in DOMAIN raised : HasNote(raised[e]) /\ fate[e] = "claimed"
    /\ Cardinality({i \in Events : Verb(i) = "close"}) >= 3
    /\ \E i \in Events : Verb(i) = "close" /\ out[i].exc = 0

(* C2: every entered block of a kind that has a close event prints it      *)
(* exactly once when it is exited, whatever the exit path (no exception, a *)
(* DodonaException claimed or passed on, another exception): a block still *)
(* open has printed none, a block left has printed exactly one, and when   *)
(* the run has ended every start event has its close event.                *)
C2_ClosedOnce ==
    /\ \A id \in DOMAIN objects :
          objects[id] \in Closable =>
             IF OnStack(id)
             THEN ClosesOf(id) = {}
             ELSE Cardinality(ClosesOf(id)) = 1
    /\ halted # "no" =>
          \A i \in Events :
             Verb(i) = "start" =>
                \E j \in Events :
                   j > i /\ Verb(j) = "close" /\ Noun(j) = Noun(i) /\ out[j].self = out[i].self

\* a run ended by an exception that is no DodonaException, raised three blocks deep
C2_Witness ==
    /\ halted = "crashed"
    /\ \E e \in DOMAIN raised : ~IsDodona(raised[e]) /\ Len(raised[e].enclosing) >= 3
    /\ Cardinality({i \in Events : Verb(i) = "close" /\ out[i].exc # 0}) >= 3

(* C3: the close event of a with-accepted block (Context, TestCase, Test,  *)
(* Judgement) that was exited by a DodonaException carries accepted = true *)
(* when the status is "correct" or "correct answer" and accepted = false   *)
(* for the eight other values of ErrorType.                                *)
C3_AcceptedFromStatus ==
    \A i \in Events :
       (/\ Verb(i) = "close"
        /\ out[i].exc # 0
        /\ IsDodona(raised[out[i].exc])
        /\ objects[out[i].self] \in WithAccepted) =>
          /\ "accepted" \in DOMAIN out[i].msg
          /\ LET enum == raised[out[i].exc].exception.status.enum
             IN  /\ enum \in {"correct", "correct answer"} => out[i].msg.accepted = TRUE
                 /\ enum \in {"internal error", "compilation error",
                              "memory limit exceeded", "time limit exceeded",
                              "output limit exceeded", "runtime error",
                              "wrong", "wrong answer"} => out[i].msg.accepted = FALSE

\* a TestCase closed by a failure whose status is "correct answer"
C3_Witness ==
    \E i \in Events :
       /\ Verb(i) = "close" /\ Noun(i) = "testcase" /\ out[i].exc # 0
       /\ IsDodona(raised[out[i].exc])
       /\ raised[out[i].exc].exception.status.enum = "correct answer"
       /\ out[i].msg.accepted = TRUE

\* the concrete classes that are instances of class c (the class statements)
KindsOf(c) ==
    CASE c = "DodonaCommand" -> Kinds
      [] c = "DodonaCommandWithAccepted" -> {"Judgement", "Context", "TestCase", "Test"}
      [] c = "DodonaCommandWithStatus" -> {"Judgement", "Test"}
      [] OTHER -> {c}

Explicit(r) == r.recover_at # "None"
\* positions (1 = innermost) of the enclosing blocks of class cls
Positions(r, cls) == {k \in 1..Len(r.enclosing) : objects[r.enclosing[k]] = cls}
\* positions of the enclosing blocks that are instances of the recover point
Matches(r) == {k \in 1..Len(r.enclosing) : objects[r.enclosing[k]] \in KindsOf(r.recover_at)}
Min(S) == CHOOSE k \in S : \A l \in S : k <= l
\* the events printed while exception e was being handled
Escalations(e) == {i \in Events : Verb(i) = "escalate" /\ out[i].exc = e}
Appends(e) == {i \in Events : Verb(i) = "append" /\ out[i].exc = e}
\* block b was closed by exception e, and its close event has field f with value v
ClosedWith(b, e, f, v) ==
    \E i \in ClosesOf(b) :
       out[i].exc = e /\ f \in DOMAIN out[i].msg /\ out[i].msg[f] = v
Correct(status) == status.enum \in {"correct", "correct answer"}

(* C4: a DodonaException raised without recover_at inside a Judgement      *)
(* block, at any depth, never leaves the Judgement block: no               *)
(* escalate-status event is printed for it, it passes the exit of every    *)
(* enclosing block below the Judgement, the Judgement claims it, and the   *)
(* close-judgement event carries its status.                               *)
C4_DefaultRecoverAtJudgement ==
    \A e \in DOMAIN raised :
       LET r == raised[e] IN
       (IsDodona(r) /\ ~Explicit(r) /\ Positions(r, "Judgement") # {}) =>
          LET kj == Min(Positions(r, "Judgement"))
              j == r.enclosing[kj]
          IN  /\ Escalations(e) = {}
              /\ fate[e] # "escaped"
              /\ fate[e] = "in flight" => OnStack(j)
              /\ fate[e] = "claimed" =>
                    /\ ClosedWith(j, e, "status", r.exception.status)
                    /\ \A k \in 1..kj :
                          objects[r.enclosing[k]] \in Closable =>
                             \E i \in ClosesOf(r.enclosing[k]) : out[i].exc = e

\* a failure without recover_at raised four blocks below a Judgement and claimed
C4_Witness ==
    \E e \in DOMAIN raised :
       /\ IsDodona(raised[e]) /\ ~Explicit(raised[e])
       /\ Len(raised[e].enclosing) = 5
       /\ objects[raised[e].enclosing[5]] = "Judgement"
       /\ fate[e] = "claimed"
       /\ Escalations(e) = {}

C6_AsStated ==
    \A e \in DOMAIN raised :
       LET r == raised[e] IN
       (IsDodona(r) /\ Explicit(r) /\ Matches(r) # {} /\ fate[e] = "claimed") =>
          Cardinality(Escalations(e)) = Min(Matches(r))

(* C6, amended: with an explicit recover_at only the block that matches    *)
(* and claims the exception prints escalate-status, carrying the status,   *)
(* as the last thing before its own close event; the blocks the exception  *)
(* passes below it print no escalate-status event.                         *)
C6_OnlyClaimerEscalates ==
    /\ \A i \in Events :
          Verb(i) = "escalate" =>
             LET r == raised[out[i].exc]
                 b == out[i].self
             IN  /\ IsDodona(r) /\ Explicit(r)
                 /\ objects[b] \in KindsOf(r.recover_at)
                 /\ out[i].during = b
                 /\ out[i].msg.status = r.exception.status
                 /\ fate[out[i].exc] = "claimed"
                 /\ \A j \in Events :
                       j > i /\ out[j].exc = out[i].exc =>
                          j = i + 1 /\ Verb(j) = "close" /\ out[j].self = b
    /\ \A e \in DOMAIN raised :
          LET r == raised[e] IN
          (IsDodona(r) /\ Explicit(r) /\ Matches(r) # {}) =>
             \A k \in 1..(Min(Matches(r)) - 1) :
                \A i \in Events :
                   out[i].exc = e /\ out[i].during = r.enclosing[k] => Verb(i) # "escalate"

\* a failure claimed by the third block it passed, with one escalate-status event
C6_Witness ==
    \E e \in DOMAIN raised :
       /\ IsDodona(raised[e]) /\ Explicit(raised[e])
       /\ Matches(raised[e]) # {}
       /\ Min(Matches(raised[e])) = 3
       /\ fate[e] = "claimed"
       /\ Cardinality(Escalations(e)) = 1

(* C7: a DodonaException that carries a note, raised inside a block,       *)
(* causes exactly one append-message event: the exit of the innermost      *)
(* enclosing block prints it, before the close event of that block and of  *)
(* every block above; the note is then removed from the exception, and no  *)
(* other block prints it again.                                            *)
C7_NoteOnce ==
    \A e \in DOMAIN raised :
       LET r == raised[e] IN
       (HasNote(r) /\ r.enclosing # << >>) =>
          LET first == r.enclosing[1] IN
          IF OnStack(first) /\ fate[e] = "in flight"
          THEN Appends(e) = {}
          ELSE /\ Cardinality(Appends(e)) = 1
               /\ \A i \in Appends(e) :
                     /\ out[i].during = first
                     /\ out[i].self = r.exception.message.id
                     /\ out[i].msg.message = r.exception.message.start_args.message
                     /\ \A j \in Events :
                           Verb(j) = "close" /\ out[j].exc = e => i < j
               /\ (exc # None /\ exc.id = e) => exc.message = None

\* a failure with a note that passed three blocks with a close event
C7_Witness ==
    \E e \in DOMAIN raised :
       /\ HasNote(raised[e])
       /\ Cardinality(Appends(e)) = 1
       /\ Cardinality({j \in Events : Verb(j) = "close" /\ out[j].exc = e}) >= 3

\* the Message objects that are notes of exceptions (never entered by the script)
NoteIds == {raised[e].exception.message.id : e \in {x \in DOMAIN raised : HasNote(raised[x])}}

(* C8: a Message or Annotation block never prints a close event, on any    *)
(* exit path: entering it prints exactly one event (append-message, resp.  *)
(* annotate-code) and leaving it prints no event of its own.               *)
C8_InlineNeverCloses ==
    /\ \A i \in Events :
          Verb(i) = "close" =>
             /\ objects[out[i].self] \in Closable
             /\ Noun(i) \notin {"message", "annotation"}
    /\ \A id \in DOMAIN objects \ NoteIds :
          objects[id] \in {"Message", "Annotation"} =>
             LET own == {i \in Events : out[i].self = id /\ Verb(i) # "escalate"}
             IN  /\ Cardinality(own) = 1
                 /\ \A i \in own :
                       /\ out[i].during = 0
                       /\ out[i].msg.command =
                             IF objects[id] = "Message"
                             THEN <<"append", "message">>
                             ELSE <<"annotate", "code">>

\* a Message block left by a DodonaException raised in its body, a block
\* above it already closed
C8_Witness ==
    \E e \in DOMAIN raised :
       /\ IsDodona(raised[e])
       /\ Len(raised[e].enclosing) >= 2
       /\ objects[raised[e].enclosing[1]] = "Message"
       /\ ~OnStack(raised[e].enclosing[2])

(* C9, as stated: no DodonaException raised inside a Judgement block ever  *)
(* leaves the Judgement block.                                             *)
C9_AsStated ==
    \A e \in DOMAIN raised :
       (IsDodona(raised[e]) /\ Positions(raised[e], "Judgement") # {}) =>
          fate[e] # "escaped"

(* C9, amended: a DodonaException raised inside a Judgement block that no  *)
(* block below the Judgement claims is claimed by the Judgement when       *)
(* recover_at is omitted or is a class the Judgement is an instance of     *)
(* (Judgement, DodonaCommandWithStatus, DodonaCommandWithAccepted,         *)
(* DodonaCommand); with any other recover_at (Tab, Context, TestCase,      *)
(* Test, Message, Annotation) that no enclosing block matches it leaves    *)
(* the Judgement block, after the Judgement has set its accepted and       *)
(* status and printed its close event.                                     *)
C9_JudgementClaimsItsOwnClasses ==
    \A e \in DOMAIN raised :
       LET r == raised[e] IN
       (IsDodona(r) /\ Positions(r, "Judgement") # {} /\ fate[e] # "in flight") =>
          LET j == r.enclosing[Min(Positions(r, "Judgement"))]
              foreign == r.recover_at \in {"Tab", "Context", "TestCase", "Test",
                                           "Message", "Annotation"}
                         /\ Matches(r) = {}
          IN  /\ fate[e] = "escaped" <=> foreign
              /\ foreign =>
                    /\ ClosedWith(j, e, "status", r.exception.status)
                    /\ ClosedWith(j, e, "accepted", Correct(r.exception.status))
              /\ (\A k \in Matches(r) : r.enclosing[k] = j) /\ ~foreign =>
                    /\ fate[e] = "claimed"
                    /\ ClosedWith(j, e, "status", r.exception.status)

\* a DodonaException with recover_at = Test, raised in a Tab inside a
\* Judgement, has left the Judgement
C9_Witness ==
    \E e \in DOMAIN raised :
       /\ IsDodona(raised[e])
       /\ raised[e].recover_at = "Test"
       /\ Len(raised[e].enclosing) = 2
       /\ objects[raised[e].enclosing[1]] = "Tab"
       /\ objects[raised[e].enclosing[2]] = "Judgement"
       /\ fate[e] = "escaped"
       /\ halted = "crashed"

\* the script's first five events open Judgement > Tab > Context > TestCase > Test
FlowNesting ==
    /\ Len(out) >= 5
    /\ \A k \in 1..5 :
          /\ Verb(k) = "start"
          /\ Noun(k) = <<"judgement", "tab", "context", "testcase", "test">>[k]
          /\ out[k].self = k

NoFailure == \A e \in DOMAIN raised : ~IsDodona(raised[e])

HasField(b, f, v) ==
    \E i \in ClosesOf(b) : f \in DOMAIN out[i].msg /\ out[i].msg[f] = v

(* C10, as stated: in the nesting Judgement > Tab > Context > TestCase >   *)
(* Test with no failure raised, close-testcase and close-context carry     *)
(* accepted = true and close-judgement accepted = true, status correct.    *)
C10_AsStated ==
    (FlowNesting /\ NoFailure /\ halted = "done") =>
       /\ HasField(4, "accepted", TRUE)
       /\ HasField(3, "accepted", TRUE)
       /\ HasField(1, "accepted", TRUE)
       /\ HasField(1, "status", [enum |-> "correct"])

(* C10, amended: in the nesting Judgement > Tab > Context > TestCase >     *)
(* Test with no failure raised, the close event of each of the five blocks *)
(* carries exactly the fields the script assigned in that block's body:    *)
(* without such an assignment close-testcase and close-context carry no    *)
(* accepted, and close-judgement neither accepted nor status.              *)
C10_NoDefaultFields ==
    (FlowNesting /\ NoFailure) =>
       \A i \in Events :
          (Verb(i) = "close" /\ out[i].self \in 1..5) =>
             DOMAIN out[i].msg \ {"command"} =
                {assigned[a].field : a \in {x \in DOMAIN assigned :
                                              assigned[x].block = out[i].self}}

\* the five blocks opened and closed, nothing raised, nothing assigned
C10_Witness ==
    /\ FlowNesting /\ NoFailure /\ halted = "done"
    /\ assigned = << >>
    /\ \A b \in 1..5 : Cardinality(ClosesOf(b)) = 1
    /\ \A i \in ClosesOf(1) : DOMAIN out[i].msg = {"command"}

\* the fields of the close event i other than its command
Fields(i) == DOMAIN out[i].msg \ {"command"}
\* the assignments the script made to the handle of block b
AssignedTo(b) == {a \in DOMAIN assigned : assigned[a].block = b}
AssignedFields(b) == {assigned[a].field : a \in AssignedTo(b)}
\* the exit of block b received the DodonaException, resp. the other exception
DodonaExit(i) == out[i].exc # 0 /\ IsDodona(raised[out[i].exc])
OtherExit(i) == out[i].exc # 0 /\ ~IsDodona(raised[out[i].exc])

(* C11: in Judgement > Tab > Context > TestCase > Test, a DodonaException  *)
(* with status "wrong answer" and no recover_at raised in the Test body    *)
(* passes every block unchanged (same status, same recover point) up to    *)
(* the Judgement: close-test carries status "wrong answer" and accepted    *)
(* false, close-testcase and close-context accepted false, close-tab       *)
(* neither field, close-judgement accepted false and status "wrong         *)
(* answer"; no escalate-status event is printed.                           *)
C11_WrongAnswerScenario ==
    \A e \in DOMAIN raised :
       LET r == raised[e]
           wa == [enum |-> "wrong answer"]
       IN
       (/\ FlowNesting /\ IsDodona(r) /\ ~Explicit(r)
        /\ r.exception.status = wa
        /\ r.enclosing = <<5, 4, 3, 2, 1>>) =>
          /\ Escalations(e) = {}
          /\ (exc # None /\ exc.id = e) =>
                exc.status = wa /\ exc.recover_at = "Judgement" /\ ~exc.escalate_status
          /\ \A b \in 1..5 :
                ~OnStack(b) =>
                   \E i \in ClosesOf(b) :
                      /\ out[i].exc = e
                      /\ b \in {1, 3, 4, 5} =>
                            "accepted" \in Fields(i) /\ out[i].msg.accepted = FALSE
                      /\ b \in {1, 5} =>
                            "status" \in Fields(i) /\ out[i].msg.status = wa
                      /\ (b \in {3, 4} /\ "status" \in Fields(i)) => "status" \in AssignedFields(b)
                      /\ b = 2 => Fields(i) = AssignedFields(2)
          /\ fate[e] # "escaped"
          /\ ~OnStack(1) => fate[e] = "claimed"

\* the scenario has run to its end and the script assigned nothing
C11_Witness ==
    /\ FlowNesting /\ halted = "done" /\ assigned = << >>
    /\ \E e \in DOMAIN raised :
          /\ IsDodona(raised[e]) /\ ~Explicit(raised[e])
          /\ raised[e].exception.status.enum = "wrong answer"
          /\ raised[e].enclosing = <<5, 4, 3, 2, 1>>
          /\ fate[e] = "claimed"
          /\ \A i \in ClosesOf(2) : Fields(i) = {}

(* C12, as stated: escalate-status is printed when, and only when, a       *)
(* failure is claimed by a block that is not the Judgement; a Judgement    *)
(* never prints escalate-status, however the DodonaException was           *)
(* constructed (recover_at omitted, or given, Judgement included).         *)
C12_AsStated ==
    /\ \A i \in Events :
          Verb(i) = "escalate" => objects[out[i].self] # "Judgement"
    /\ \A e \in DOMAIN raised :
          (/\ IsDodona(raised[e]) /\ fate[e] = "claimed"
           /\ \E i \in Events :
                 /\ out[i].exc = e /\ out[i].during # 0
                 /\ objects[out[i].during] # "Judgement"
                 /\ \A j \in Events : j > i => out[j].exc # e
           /\ ~\E i \in Events : out[i].exc = e /\ out[i].during # 0
                                 /\ objects[out[i].during] = "Judgement") =>
             Escalations(e) # {}

(* C14: an exception that is no DodonaException is never claimed by a      *)
(* block: it passes every enclosing exit and ends the process; no          *)
(* append-message and no escalate-status event is printed for it, and      *)
(* every enclosing block prints its close event with only the fields the   *)
(* script assigned.                                                        *)
C14_OtherExceptionPasses ==
    \A e \in DOMAIN raised :
       LET r == raised[e] IN
       ~IsDodona(r) =>
          /\ fate[e] # "claimed"
          /\ halted # "done"
          /\ exc # None /\ exc.id = e
          /\ \A i \in Events : out[i].exc = e => Verb(i) = "close"
          /\ \A k \in 1..Len(r.enclosing) :
                LET b == r.enclosing[k] IN
                /\ (OnStack(b) <=> k > Len(r.enclosing) - Len(stack))
                /\ (~OnStack(b) /\ objects[b] \in Closable) =>
                      \E i \in ClosesOf(b) :
                         /\ out[i].exc = e
                         /\ Fields(i) = AssignedFields(b)
          /\ (fate[e] = "escaped") <=> (halted = "crashed")

\* another exception raised in a Test whose handle had a field assigned has
\* passed five blocks and ended the process
C14_Witness ==
    /\ halted = "crashed"
    /\ \E e \in DOMAIN raised :
          /\ ~IsDodona(raised[e])
          /\ Len(raised[e].enclosing) = 5
          /\ AssignedFields(raised[e].enclosing[1]) # {}
          /\ fate[e] = "escaped"

(* C15, as stated: when a failure leaves a block, the block's close event  *)
(* is printed first and the failure handling runs afterwards: the close    *)
(* event precedes the append-message and escalate-status events that the   *)
(* same block's handling prints.                                           *)
C15_AsStated ==
    \A i \in Events :
       (/\ Verb(i) \in {"append", "escalate"}
        /\ out[i].during # 0
        /\ objects[out[i].during] \in Closable) =>
          \E j \in ClosesOf(out[i].during) : j < i

(* C15, amended: when a failure leaves a block, the failure handling runs  *)
(* first and the close event is printed afterwards: the append-message and *)
(* escalate-status events of a block's handling precede that block's close *)
(* event, and the close event carries the accepted (and status) the        *)
(* handling has set.                                                       *)
C15_HandlingBeforeClose ==
    \A i \in Events :
       (/\ Verb(i) \in {"append", "escalate"}
        /\ out[i].during # 0
        /\ objects[out[i].during] \in Closable) =>
          LET b == out[i].during IN
          /\ \A j \in ClosesOf(b) : j > i
          /\ \E j \in ClosesOf(b) :
                /\ out[j].exc = out[i].exc
                /\ \A k \in Events : (i < k /\ k < j) => out[k].during = b
                /\ objects[b] \in WithAccepted => "accepted" \in Fields(j)
                /\ objects[b] \in WithStatus =>
                      /\ "status" \in Fields(j)
                      /\ out[j].msg.status = raised[out[i].exc].exception.status

\* a Test whose exit printed the note, then escalate-status, then close-test
C15_Witness ==
    \E i \in Events :
       /\ i + 2 <= Len(out)
       /\ Verb(i) = "append" /\ out[i].during # 0
       /\ Verb(i + 1) = "escalate" /\ out[i + 1].during = out[i].during
       /\ Verb(i + 2) = "close" /\ Noun(i + 2) = "test"
       /\ out[i + 2].self = out[i].during

(* C16: the close event of a with-status block (Test, Judgement) has a     *)
(* status field if and only if a DodonaException reached the block's exit  *)
(* or the script assigned one in the body, and likewise for accepted: when *)
(* no failure occurs no default status or accepted is made up.             *)
C16_StatusOnlyFromFailure ==
    \A i \in Events :
       (Verb(i) = "close" /\ objects[out[i].self] \in WithStatus) =>
          /\ "status" \in Fields(i) <=>
                (DodonaExit(i) \/ "status" \in AssignedFields(out[i].self))
          /\ "accepted" \in Fields(i) <=>
                (DodonaExit(i) \/ "accepted" \in AssignedFields(out[i].self))

\* a Test left without an exception, with a field assigned, and a Judgement
\* above it left without an exception: neither has a status
C16_Witness ==
    /\ halted = "done"
    /\ raised = << >>
    /\ \E i, j \in Events :
          /\ Verb(i) = "close" /\ Noun(i) = "test" /\ Fields(i) = {"generated"}
          /\ Verb(j) = "close" /\ Noun(j) = "judgement" /\ Fields(j) = {}

\* failure handling overwrites field f of the close event i of a block of class cls
Overwritten(i, f, cls) ==
    /\ DodonaExit(i)
    /\ \/ f = "accepted" /\ cls \in WithAccepted
       \/ f = "status" /\ cls \in WithStatus

(* C17: every field the script assigned through the handle is present in   *)
(* the block's close event on every exit path, with the assigned value     *)
(* unless it is accepted (with-accepted block) or status (with-status      *)
(* block) and a DodonaException reached the exit, which overwrites it;     *)
(* failure handling adds no other field, and leaves the start fields as    *)
(* they were.                                                              *)
C17_AssignedFieldsKept ==
    /\ \A a \in DOMAIN assigned :
          LET b == assigned[a].block
              f == assigned[a].field
          IN  (~OnStack(b) /\ objects[b] \in Closable) =>
                 \E i \in ClosesOf(b) :
                    /\ f \in Fields(i)
                    /\ out[i].msg[f] =
                          IF ~Overwritten(i, f, objects[b]) THEN assigned[a].value
                          ELSE IF f = "accepted"
                               THEN Correct(raised[out[i].exc].exception.status)
                               ELSE raised[out[i].exc].exception.status
    /\ \A i \in Events :
          Verb(i) = "close" =>
             \A f \in Fields(i) \ AssignedFields(out[i].self) :
                Overwritten(i, f, objects[out[i].self])
    /\ (exc # None /\ exc.cls = "DodonaException") =>
          \A k \in 1..Len(stack) :
             LET h == handle_dodona_exception(
                         [self |-> stack[k], exception |-> exc, out |-> out])
             IN  /\ h.self.start_args = stack[k].start_args
                 /\ \A f \in DOMAIN stack[k].close_args :
                       f \in DOMAIN h.self.close_args
                 /\ \A f \in DOMAIN stack[k].close_args \ {"accepted", "status"} :
                       h.self.close_args[f] = stack[k].close_args[f]

\* a Test whose handle got `generated', left by a DodonaException: the close
\* event has generated as assigned, and accepted and status from the failure
C17_Witness ==
    \E a \in DOMAIN assigned :
       /\ assigned[a].field = "generated"
       /\ objects[assigned[a].block] = "Test"
       /\ \E i \in ClosesOf(assigned[a].block) :
             /\ DodonaExit(i)
             /\ Fields(i) = {"generated", "accepted", "status"}
             /\ out[i].msg.generated = assigned[a].value

(* C18: once a block claims a DodonaException raised with an explicit      *)
(* recover point, no block enclosing the claiming block sees it: no event  *)
(* of theirs is printed while it is handled, their close events are not    *)
(* for it and carry only the fields the script assigned (unless another    *)
(* exception reaches them), and the exception is no longer in flight: the  *)
(* body around the claiming block goes on.                                 *)
C18_ClaimedIsInvisibleAbove ==
    \A e \in DOMAIN raised :
       LET r == raised[e] IN
       (IsDodona(r) /\ Explicit(r) /\ Matches(r) # {}) =>
          LET k0 == Min(Matches(r)) IN
          /\ \A k \in 1..Len(r.enclosing) :
                k > k0 =>
                   LET b == r.enclosing[k] IN
                   /\ \A i \in Events :
                         (out[i].self = b \/ out[i].during = b) => out[i].exc # e
                   /\ \A i \in ClosesOf(b) :
                         out[i].exc = 0 => Fields(i) = AssignedFields(b)
                   /\ fate[e] = "in flight" => OnStack(b)
          /\ fate[e] # "escaped"
          /\ fate[e] = "claimed" =>
                /\ exc = None \/ exc.id # e
                /\ halted = "crashed" => \E x \in DOMAIN raised : fate[x] = "escaped"

\* a TestCase has claimed a failure raised in its Test; the Context, the Tab
\* and the Judgement around it were left without an exception, the Judgement
\* without status
C18_Witness ==
    /\ halted = "done"
    /\ \E e \in DOMAIN raised :
          /\ IsDodona(raised[e])
          /\ raised[e].recover_at = "TestCase"
          /\ Len(raised[e].enclosing) = 5
          /\ objects[raised[e].enclosing[2]] = "TestCase"
          /\ fate[e] = "claimed"
          /\ \A k \in 3..5 :
                \E i \in ClosesOf(raised[e].enclosing[k]) :
                   out[i].exc = 0 /\ Fields(i) = {}

\* the blocks that printed escalate-status for exception e
Claimers(e) == {out[i].self : i \in Escalations(e)}

(* C19: the recover point is matched by subtype, innermost first: a        *)
(* DodonaException with an explicit recover_at is claimed by the innermost *)
(* enclosing block that is an instance of recover_at, and only that block  *)
(* prints escalate-status; recover_at = DodonaCommandWithAccepted is       *)
(* claimed by the innermost enclosing Test, TestCase, Context or           *)
(* Judgement, recover_at = DodonaCommand by the block whose body raised,   *)
(* a Message or Annotation block included; it leaves all the blocks only   *)
(* when none is an instance of recover_at.                                 *)
C19_InnermostInstanceClaims ==
    \A e \in DOMAIN raised :
       LET r == raised[e]
           with_accepted == {k \in 1..Len(r.enclosing) :
                                objects[r.enclosing[k]] \in
                                   {"Test", "TestCase", "Context", "Judgement"}}
       IN
       (IsDodona(r) /\ Explicit(r)) =>
          /\ (fate[e] = "escaped") => Matches(r) = {}
          /\ (fate[e] = "claimed") =>
                /\ Matches(r) # {}
                /\ Claimers(e) = {r.enclosing[Min(Matches(r))]}
                /\ \A k \in 1..Len(r.enclosing) :
                      (objects[r.enclosing[k]] \in Closable /\ k <= Min(Matches(r))) =>
                         \E i \in ClosesOf(r.enclosing[k]) : out[i].exc = e
          /\ (fate[e] = "in flight" /\ Matches(r) # {}) =>
                /\ Claimers(e) = {}
                /\ OnStack(r.enclosing[Min(Matches(r))])
          /\ (r.recover_at = "DodonaCommandWithAccepted" /\ fate[e] = "claimed") =>
                Claimers(e) = {r.enclosing[Min(with_accepted)]}
          /\ (r.recover_at = "DodonaCommand" /\ r.enclosing # << >>) =>
                /\ fate[e] # "escaped"
                /\ fate[e] = "claimed" => Claimers(e) = {r.enclosing[1]}

\* recover_at = DodonaCommand raised in the body of a Message block inside a
\* Test: the Message block claimed it, the Test and the blocks around it, which
\* match too, did not
C19_Witness ==
    \E e \in DOMAIN raised :
       /\ IsDodona(raised[e])
       /\ raised[e].recover_at = "DodonaCommand"
       /\ Len(raised[e].enclosing) >= 3
       /\ objects[raised[e].enclosing[1]] = "Message"
       /\ objects[raised[e].enclosing[2]] \in WithAccepted
       /\ fate[e] = "claimed"
       /\ Claimers(e) = {raised[e].enclosing[1]}
       /\ halted = "done"

\* line 41 of the grading flow has been executed
DiffKnown == flow.pc \in {"Test", "generated", "end"}

(* C13, as stated: in the grading flow the outcome of the Test block        *)
(* reflects the comparison of the two renderings: when the diff is not     *)
(* zero, a DodonaException whose status is not a correct one is raised in  *)
(* the Test block, so close-test and close-judgement carry accepted =      *)
(* false; when the diff is zero nothing is raised.                         *)
C13_AsStated ==
    /\ \A i \in Events :
          (Verb(i) = "close" /\ Noun(i) \in {"test", "judgement"} /\ DiffKnown
           /\ flow.diff # 0) =>
             /\ DodonaExit(i)
             /\ ~Correct(raised[out[i].exc].exception.status)
             /\ "accepted" \in Fields(i)
             /\ out[i].msg.accepted = FALSE
    /\ (DiffKnown /\ flow.diff = 0) => \A e \in DOMAIN raised : ~IsDodona(raised[e])

(* C20, as stated: after an InOutPatch scope has been entered and left, by *)
(* the end of its body or by an exception, sys.stdin, sys.stdout,          *)
(* sys.stderr, sys.__stdin__, sys.__stdout__ and sys.__stderr__ are bound  *)
(* to the objects they were bound to before the scope was entered; the     *)
(* StringIO objects are not visible outside the scope.                     *)
C20_AsStated ==
    \A h \in DOMAIN patch.history :
       patch.history[h].cls = "InOutPatch" =>
          \A x \in Streams \cup DunderStreams :
             /\ patch.history[h].after[x] = patch.history[h].before[x]
             /\ patch.scopes = << >> => patch.globals[x].kind # "StringIO"

\* the globals TimePatch, RuntimePatch and TurtlePatch assign to
PatchedGlobals == Globals \ (Streams \cup DunderStreams)

(* C21, as stated: for any properly nested sequence of TimePatch,          *)
(* RuntimePatch and TurtlePatch scopes, once every scope has been left, by *)
(* the end of its body or by an exception, each global the patches         *)
(* replaced (time.sleep; sys.modules['os'], sys.modules['io'], builtins    *)
(* open, eval, exec, sys.argv; turtle.mainloop, turtle.done,               *)
(* turtle.Turtle, SvgTurtle._screen, SvgTurtle._pen) is bound to the       *)
(* object it was bound to before the first scope was entered; and leaving  *)
(* a scope never suppresses the exception raised in its body.              *)
C21_AsStated ==
    /\ (/\ patch.scopes = << >>
        /\ \A h \in DOMAIN patch.history : patch.history[h].cls # "InOutPatch") =>
          \A x \in PatchedGlobals : patch.globals[x] = Original(x)
    /\ (/\ patch.history # << >>
        /\ patch.history[Len(patch.history)].raised) =>
          patch.raising \/ patch.crashed

====
